---- MODULE Spec2Model ----
(***************************************************************************)
(* Model of visualize_all.py: main() collects the .tml files of the given  *)
(* directories, generate_multi_file_html() parses each of them with a      *)
(* TempEvalParser, aggregates the counts and emits one HTML report.        *)
(***************************************************************************)
EXTENDS Integers, Sequences, FiniteSets, TLC

(***************************************************************************)
(* Bounds of the model.                                                    *)
(***************************************************************************)
\* longest list of directories on the command line
MaxDirs == 2
\* --limit ranges over -MaxLimit..MaxLimit, or is not given
MaxLimit == 1
\* most children of the sentence of a generated document
MaxChildren == 2
\* most TLINKs of a generated document
MaxTlinks == 2

(***************************************************************************)
(* Python values.                                                          *)
(***************************************************************************)
\* Python's None, for an attribute that is absent (elem.get returns None)
NoneVal == "None"

\* truthiness of an attribute value: None and '' are falsy
Truthy(v) == v # NoneVal /\ v # ""

\* a or b
PyOr(a, b) == IF Truthy(a) THEN a ELSE b

\* sum(...) over a sequence of integers
RECURSIVE SumSeq(_)
SumSeq(s) == IF s = <<>> THEN 0 ELSE Head(s) + SumSeq(Tail(s))

\* sep.join(parts) for a sequence of strings
RECURSIVE Join(_, _)
Join(parts, sep) ==
    IF parts = <<>> THEN ""
    ELSE IF Len(parts) = 1 THEN parts[1]
    ELSE parts[1] \o sep \o Join(Tail(parts), sep)

\* ''.join(parts) for a sequence of texts; a text is the sequence of its
\* characters
RECURSIVE Concat(_)
Concat(parts) == IF parts = <<>> THEN <<>> ELSE Head(parts) \o Concat(Tail(parts))

\* the whitespace characters str.strip() removes
Whitespace == {" ", "\n", "\t"}

RECURSIVE LStrip(_)
LStrip(t) == IF t # <<>> /\ Head(t) \in Whitespace THEN LStrip(Tail(t)) ELSE t

RECURSIVE RStrip(_)
RStrip(t) ==
    IF t # <<>> /\ t[Len(t)] \in Whitespace
    THEN RStrip(SubSeq(t, 1, Len(t) - 1))
    ELSE t

\* str.strip()
Strip(t) == RStrip(LStrip(t))

(***************************************************************************)
(* A dict is a sequence of <<key, value>> entries in insertion order.      *)
(***************************************************************************)
DictKeys(d) == { d[i][1] : i \in DOMAIN d }

DictHas(d, k) == k \in DictKeys(d)

DictGet(d, k, default) ==
    IF DictHas(d, k) THEN d[CHOOSE i \in DOMAIN d : d[i][1] = k][2] ELSE default

\* d[k] = v : overwrite in place when the key exists, else append
DictSet(d, k, v) ==
    IF DictHas(d, k)
    THEN [i \in DOMAIN d |-> IF d[i][1] = k THEN <<k, v>> ELSE d[i]]
    ELSE Append(d, <<k, v>>)

(***************************************************************************)
(* XML documents.  An element has a tag, its id attribute (eid or tid),    *)
(* its text and its tail; a sentence <s> has a leading text and children;  *)
(* a document has elements outside the sentences (the header), sentences   *)
(* and TLINKs.                                                             *)
(***************************************************************************)
Elem(tag, id, attr, text, tail) ==
    [tag |-> tag, id |-> id, attr |-> attr, text |-> text, tail |-> tail]

Sent(text, children) == [text |-> text, children |-> children]

TLink(lid, rel, ev, ti, rev, rti, task) ==
    [lid |-> lid, relType |-> rel, eventID |-> ev, timeID |-> ti,
     relatedToEvent |-> rev, relatedToTime |-> rti, task |-> task]

\* all elements of the document in document order
RECURSIVE SentElems(_)
SentElems(sents) ==
    IF sents = <<>> THEN <<>> ELSE Head(sents).children \o SentElems(Tail(sents))

DocElems(doc) == doc.outer \o SentElems(doc.sents)

\* root.findall('.//TAG')
FindAll(doc, tag) == SelectSeq(DocElems(doc), LAMBDA e : e.tag = tag)


(***************************************************************************)
(* The content of a file on disk: whether open() succeeds, whether the     *)
(* bytes decode as UTF-8, whether ET.parse accepts them, the text read     *)
(* (raw) and the document ET.parse builds.                                 *)
(***************************************************************************)
FileContent(open_ok, utf8, wellformed, raw, doc) ==
    [open_ok |-> open_ok, utf8 |-> utf8, wellformed |-> wellformed,
     raw |-> raw, doc |-> doc]

\* the exception of open(self.filepath, 'r', encoding='utf-8') and f.read(),
\* None when there is none
OpenReadException(content) ==
    IF ~content.open_ok THEN "OSError"
    ELSE IF ~content.utf8 THEN "UnicodeDecodeError"
    ELSE NoneVal

\* the exception of ET.parse(self.filepath), which reads the bytes itself and
\* honours the encoding the XML declaration names; None when there is none
ETParseException(content) ==
    IF ~content.open_ok THEN "OSError"
    ELSE IF ~content.wellformed THEN "ParseError"
    ELSE NoneVal

ETParseRaises(content) == ETParseException(content) # NoneVal

\* an except clause that names ET.ParseError alone
ExceptParseError(exc) == exc = "ParseError"

\* "except Exception" catches: each of these classes derives from Exception
ExceptException(exc) == exc \in {"OSError", "UnicodeDecodeError", "ParseError"}

(***************************************************************************)
(* class TempEvalParser                                                    *)
(***************************************************************************)
\* __init__ up to the call of parse_file: every field starts empty, whatever
\* the variable parser was bound to before
NoPath == [dir |-> "", name |-> 0, ext |-> ""]

\* the binding of a variable that holds no parser yet
NoParser ==
    [filepath |-> NoPath, events |-> <<>>, timexes |-> <<>>, tlinks |-> <<>>,
     sentences |-> <<>>, raw_xml |-> NoneVal]

\* the fields kept in the object the variable was bound to before (fields
\* declared on the class instead of set in __init__)
NewParserSharedFields(prev, filepath) == [prev EXCEPT !.filepath = filepath]

NewParser(prev, filepath) ==
    [filepath |-> filepath, events |-> <<>>, timexes |-> <<>>, tlinks |-> <<>>,
     sentences |-> <<>>, raw_xml |-> NoneVal]

\* for event in root.findall('.//EVENT'): self.events[eid] = {...}
RECURSIVE ExtractEvents(_, _)
ExtractEvents(events, elems) ==
    IF elems = <<>> THEN events
    ELSE ExtractEvents(
            DictSet(events, Head(elems).id,
                    [text |-> Head(elems).text, class |-> Head(elems).attr]),
            Tail(elems))

\* for timex in root.findall('.//TIMEX3'): self.timexes[tid] = {...}
RECURSIVE ExtractTimexes(_, _)
ExtractTimexes(timexes, elems) ==
    IF elems = <<>> THEN timexes
    ELSE ExtractTimexes(
            DictSet(timexes, Head(elems).id,
                    [text |-> Head(elems).text, value |-> Head(elems).attr]),
            Tail(elems))

\* one piece of a rendered sentence: a run of text, a highlighted span or
\* an id marker
Piece(kind, cls, id, title, text) ==
    [kind |-> kind, cls |-> cls, id |-> id, title |-> title, text |-> text]

\* the pieces of a child, the tail text being appended inside the EVENT and
\* TIMEX3 branches only
RenderChildTailOfAnnotations(self, child) ==
    LET tail == IF child.tail # <<>>
                THEN << Piece("text", "", NoneVal, <<>>, child.tail) >>
                ELSE <<>>
    IN IF child.tag = "EVENT"
       THEN << Piece("span", "event", child.id,
                     <<"Class", DictGet(self.events, child.id, [class |-> ""]).class>>,
                     child.text),
               Piece("marker", "event-id", child.id, <<>>, <<>>) >> \o tail
       ELSE IF child.tag = "TIMEX3"
       THEN << Piece("span", "timex", child.id,
                     <<"Value", DictGet(self.timexes, child.id, [value |-> ""]).value>>,
                     child.text),
               Piece("marker", "timex-id", child.id, <<>>, <<>>) >> \o tail
       ELSE <<>>

\* the pieces one child of a sentence contributes
RenderChild(self, child) ==
    (IF child.tag = "EVENT"
     THEN << Piece("span", "event", child.id,
                   <<"Class", DictGet(self.events, child.id, [class |-> ""]).class>>,
                   child.text),
             Piece("marker", "event-id", child.id, <<>>, <<>>) >>
     ELSE IF child.tag = "TIMEX3"
     THEN << Piece("span", "timex", child.id,
                   <<"Value", DictGet(self.timexes, child.id, [value |-> ""]).value>>,
                   child.text),
             Piece("marker", "timex-id", child.id, <<>>, <<>>) >>
     ELSE <<>>)
    \o (IF child.tail # <<>>
        THEN << Piece("text", "", NoneVal, <<>>, child.tail) >>
        ELSE <<>>)

RECURSIVE RenderChildren(_, _)
RenderChildren(self, children) ==
    IF children = <<>> THEN <<>>
    ELSE RenderChild(self, Head(children)) \o RenderChildren(self, Tail(children))

\* _render_sentence
RenderSentence(self, elem) ==
    (IF elem.text # <<>>
     THEN << Piece("text", "", NoneVal, <<>>, elem.text) >>
     ELSE <<>>)
    \o RenderChildren(self, elem.children)

\* parse_file: an exception anywhere in the try block leaves the fields as
\* they were when it was raised, and is printed
ParseFile(self, content) ==
    IF OpenReadException(content) # NoneVal
    THEN self
    ELSE LET s1 == [self EXCEPT !.raw_xml = content.raw] IN
         IF ETParseRaises(content)
         THEN s1
         ELSE LET s2 == [s1 EXCEPT
                           !.events = ExtractEvents(@, FindAll(content.doc, "EVENT")),
                           !.timexes = ExtractTimexes(@, FindAll(content.doc, "TIMEX3")),
                           !.tlinks = @ \o content.doc.tlinks]
              IN [s2 EXCEPT
                    !.sentences =
                        @ \o [i \in DOMAIN content.doc.sents |->
                                 RenderSentence(s2, content.doc.sents[i])]]

\* the exception raised in the try block of parse_file, None when none is
ParseFileException(content) ==
    PyOr(OpenReadException(content), ETParseException(content))

\* parse_file reaches its except clause (and prints "Error parsing ...")
ParseFileRaises(content) ==
    /\ ParseFileException(content) # NoneVal
    /\ ExceptException(ParseFileException(content))

\* an exception leaves parse_file, and so TempEvalParser(...)
ParseFileEscapes(content) ==
    /\ ParseFileException(content) # NoneVal
    /\ ~ExceptException(ParseFileException(content))

\* an exception leaves get_plain_text
GetPlainTextEscapes(content) ==
    /\ ETParseException(content) # NoneVal
    /\ ~ExceptException(ETParseException(content))

\* the text of one sentence in get_plain_text
RECURSIVE ChildrenText(_)
ChildrenText(children) ==
    IF children = <<>> THEN <<>>
    ELSE Head(children).text \o Head(children).tail \o ChildrenText(Tail(children))

\* get_plain_text before the final join: the list plain_text
PlainTextEntries(self, content) ==
    IF ETParseRaises(content)
    THEN <<>>
    ELSE [i \in DOMAIN content.doc.sents |->
             Strip(content.doc.sents[i].text
                   \o ChildrenText(content.doc.sents[i].children))]

\* '\n'.join(plain_text): the returned text, "\n" being the newline token
RECURSIVE JoinLines(_)
JoinLines(entries) ==
    IF entries = <<>> THEN <<>>
    ELSE IF Len(entries) = 1 THEN entries[1]
    ELSE entries[1] \o <<"\n">> \o JoinLines(Tail(entries))

\* get_plain_text
GetPlainText(self, content) == JoinLines(PlainTextEntries(self, content))

\* text[:15]
LabelLen == 15

Truncate(text, n) == SubSeq(text, 1, IF Len(text) < n THEN Len(text) ELSE n)

\* the first loop with a guard "if eid:" that leaves out the event without id
RECURSIVE EventNodesWithId(_, _)
EventNodesWithId(acc, events) ==
    IF events = <<>> THEN acc
    ELSE EventNodesWithId(
            IF Truthy(Head(events)[1])
            THEN [nodes |-> Append(acc.nodes,
                                   [id |-> Head(events)[1],
                                    label |-> Truncate(Head(events)[2].text, LabelLen),
                                    type |-> "event",
                                    fullText |-> Head(events)[2].text,
                                    extra |-> Head(events)[2].class]),
                  node_ids |-> DictSet(acc.node_ids, Head(events)[1], Len(acc.nodes))]
            ELSE acc,
            Tail(events))

\* get_graph_data, first loop: one node per entry of self.events
RECURSIVE EventNodes(_, _)
EventNodes(acc, events) ==
    IF events = <<>> THEN acc
    ELSE EventNodes(
            [nodes |-> Append(acc.nodes,
                              [id |-> Head(events)[1],
                               label |-> Truncate(Head(events)[2].text, LabelLen),
                               type |-> "event",
                               fullText |-> Head(events)[2].text,
                               extra |-> Head(events)[2].class]),
             node_ids |-> DictSet(acc.node_ids, Head(events)[1], Len(acc.nodes))],
            Tail(events))

\* get_graph_data, second loop: one node per entry of self.timexes
RECURSIVE TimexNodes(_, _)
TimexNodes(acc, timexes) ==
    IF timexes = <<>> THEN acc
    ELSE TimexNodes(
            [nodes |-> Append(acc.nodes,
                              [id |-> Head(timexes)[1],
                               label |-> Truncate(Head(timexes)[2].text, LabelLen),
                               type |-> "timex",
                               fullText |-> Head(timexes)[2].text,
                               extra |-> Head(timexes)[2].value]),
             node_ids |-> DictSet(acc.node_ids, Head(timexes)[1], Len(acc.nodes))],
            Tail(timexes))

\* the third loop with the positions of source and target exchanged
RECURSIVE GraphLinksExchanged(_, _)
GraphLinksExchanged(node_ids, tlinks) ==
    IF tlinks = <<>> THEN <<>>
    ELSE LET tlink == Head(tlinks)
             src == PyOr(tlink.eventID, tlink.timeID)
             tgt == PyOr(tlink.relatedToEvent, tlink.relatedToTime)
         IN (IF Truthy(src) /\ Truthy(tgt)
                /\ DictHas(node_ids, src) /\ DictHas(node_ids, tgt)
             THEN << [source |-> DictGet(node_ids, tgt, -1),
                      target |-> DictGet(node_ids, src, -1),
                      relation |-> tlink.relType,
                      sourceId |-> src, targetId |-> tgt] >>
             ELSE <<>>)
            \o GraphLinksExchanged(node_ids, Tail(tlinks))

\* the third loop with timeID and relatedToTime taken before eventID and
\* relatedToEvent
RECURSIVE GraphLinksTimeFirst(_, _)
GraphLinksTimeFirst(node_ids, tlinks) ==
    IF tlinks = <<>> THEN <<>>
    ELSE LET tlink == Head(tlinks)
             src == PyOr(tlink.timeID, tlink.eventID)
             tgt == PyOr(tlink.relatedToTime, tlink.relatedToEvent)
         IN (IF Truthy(src) /\ Truthy(tgt)
                /\ DictHas(node_ids, src) /\ DictHas(node_ids, tgt)
             THEN << [source |-> DictGet(node_ids, src, -1),
                      target |-> DictGet(node_ids, tgt, -1),
                      relation |-> tlink.relType,
                      sourceId |-> src, targetId |-> tgt] >>
             ELSE <<>>)
            \o GraphLinksTimeFirst(node_ids, Tail(tlinks))

\* get_graph_data, third loop: the links of the TLINKs whose ends are nodes
RECURSIVE GraphLinks(_, _)
GraphLinks(node_ids, tlinks) ==
    IF tlinks = <<>> THEN <<>>
    ELSE LET tlink == Head(tlinks)
             src == PyOr(tlink.eventID, tlink.timeID)
             tgt == PyOr(tlink.relatedToEvent, tlink.relatedToTime)
         IN (IF Truthy(src) /\ Truthy(tgt)
                /\ DictHas(node_ids, src) /\ DictHas(node_ids, tgt)
             THEN << [source |-> DictGet(node_ids, src, -1),
                      target |-> DictGet(node_ids, tgt, -1),
                      relation |-> tlink.relType,
                      sourceId |-> src, targetId |-> tgt] >>
             ELSE <<>>)
            \o GraphLinks(node_ids, Tail(tlinks))

\* get_graph_data: nodes (positions counted from 0, as in Python) and links
GetGraphData(self) ==
    LET acc == TimexNodes(EventNodes([nodes |-> <<>>, node_ids |-> <<>>],
                                     self.events),
                          self.timexes)
    IN [nodes |-> acc.nodes, node_ids |-> acc.node_ids,
        links |-> GraphLinks(acc.node_ids, self.tlinks)]


(***************************************************************************)
(* The environment: directories, the files in them and what they hold.     *)
(* A path is a directory, a file name (numbered in sort order) and an      *)
(* extension.                                                              *)
(***************************************************************************)
Path(dir, name, ext) == [dir |-> dir, name |-> name, ext |-> ext]

\* the directory names a command line can give; "nodir" does not exist
DirNames == {"a", "b", "nodir"}

\* path.exists()
Exists(dir) == dir \in {"a", "b"}

\* the entries of a directory; both directories hold a file named 1.tml
Listing(dir) ==
    IF dir = "a" THEN {Path("a", 1, "tml"), Path("a", 2, "tml"), Path("a", 3, "txt")}
    ELSE IF dir = "b" THEN {Path("b", 1, "tml")}
    ELSE {}

TmlPaths == { p \in UNION { Listing(d) : d \in DirNames } : p.ext = "tml" }

EmptyDoc == [outer |-> <<>>, sents |-> <<>>, tlinks |-> <<>>]

\* a document with a creation time in the header, one sentence, and one
\* link of task A and one of task B
DocA ==
    [outer |-> << Elem("TIMEX3", "t0", "1998-01-08", <<"D">>, <<>>) >>,
     sents |-> << Sent(<<"H", "e", " ">>,
                       << Elem("EVENT", "e1", "REPORTING", <<"s", "a", "y">>,
                               <<" ", "o", "n", " ">>),
                          Elem("TIMEX3", "t1", "1998-01-05", <<"M", "o", "n">>,
                               <<".", " ">>) >>) >>,
     tlinks |-> << TLink("l1", "BEFORE", "e1", NoneVal, NoneVal, "t1", "A"),
                   TLink("l2", "OVERLAP", "e1", NoneVal, NoneVal, "t0", "B") >>]

\* a document with a repeated eid, an EVENT without eid, a tid equal to an
\* eid, an element that is no annotation, and links with and without task
DocB ==
    [outer |-> <<>>,
     sents |-> << Sent(<<>>,
                       << Elem("EVENT", "e1", "OCCURRENCE", <<"r", "u", "n">>, <<" ">>),
                          Elem("EVENT", "e1", NoneVal, <<"d", "u", "p">>, <<>>),
                          Elem("NUMEX", NoneVal, NoneVal, <<"5">>, <<" ">>) >>),
                  Sent(<<" ">>,
                       << Elem("EVENT", NoneVal, NoneVal, <<>>, <<"\n">>),
                          Elem("TIMEX3", "e1", "P1D", <<"d", "a", "y">>, <<>>) >>) >>,
     tlinks |-> << TLink("l1", "AFTER", "e1", NoneVal, "e1", NoneVal, "C"),
                   TLink("l2", "VAGUE", NoneVal, "e1", NoneVal, "t9", NoneVal),
                   TLink("l3", NoneVal, "", "e1", NoneVal, "", "D") >>]

\* what a .tml path can hold: a file open() refuses, a well-formed document
\* in an encoding other than UTF-8, text that is not XML, and three documents
\* in UTF-8
Contents ==
    { FileContent(FALSE, FALSE, FALSE, "", EmptyDoc),
      FileContent(TRUE, FALSE, TRUE, "", DocA),
      FileContent(TRUE, TRUE, FALSE, "not xml", EmptyDoc),
      FileContent(TRUE, TRUE, TRUE, "xml empty", EmptyDoc),
      FileContent(TRUE, TRUE, TRUE, "xml A", DocA),
      FileContent(TRUE, TRUE, TRUE, "xml B", DocB) }

\* d3.v7.min.js next to the script: absent, empty, or the library
D3Files == {"absent", "", "d3 source"}

\* the values of --limit: not given (None), or an integer
Limits ==
    { [given |-> FALSE, n |-> 0] } \cup { [given |-> TRUE, n |-> k] : k \in -MaxLimit..MaxLimit }

\* the non-empty lists of directories of at most MaxDirs entries
DirLists == UNION { [1..k -> DirNames] : k \in 1..MaxDirs }


(***************************************************************************)
(* main: collecting the files.                                             *)
(***************************************************************************)
\* the orders in which path.glob('*.tml') can yield the entries of a directory
GlobOrders(dir) ==
    LET found == { p \in Listing(dir) : p.ext = "tml" }
    IN { s \in [1..Cardinality(found) -> found] :
           \A i, j \in DOMAIN s : i # j => s[i] # s[j] }

\* paths of one directory compare by file name
RECURSIVE Insert(_, _)
Insert(p, sorted) ==
    IF sorted = <<>> THEN <<p>>
    ELSE IF p.name < Head(sorted).name THEN <<p>> \o sorted
    ELSE <<Head(sorted)>> \o Insert(p, Tail(sorted))

\* the paths in the order glob yielded them
Unsorted(paths) == paths

\* sorted(path.glob('*.tml'))
RECURSIVE Sorted(_)
Sorted(paths) ==
    IF paths = <<>> THEN <<>> ELSE Insert(Head(paths), Sorted(Tail(paths)))

\* if args.limit: tml_files = tml_files[:args.limit]
Slice(files, n) ==
    IF n >= 0
    THEN SubSeq(files, 1, IF n < Len(files) THEN n ELSE Len(files))
    ELSE SubSeq(files, 1, IF Len(files) + n > 0 THEN Len(files) + n ELSE 0)

ApplyLimit(files, limit) ==
    IF limit.given /\ limit.n # 0 THEN Slice(files, limit.n) ELSE files

(***************************************************************************)
(* generate_multi_file_html: one iteration of the loop over the files.     *)
(***************************************************************************)
\* the tasks in sort order (sorted() compares the strings)
TaskOrder == <<"A", "B", "C", "D">>

SortedTasks(tasks) == SelectSeq(TaskOrder, LAMBDA t : t \in tasks)

\* the loop "Count tasks" counting only the tasks task_counts starts with
RECURSIVE CountTasksKnownOnly(_, _)
CountTasksKnownOnly(acc, tlinks) ==
    IF tlinks = <<>> THEN acc
    ELSE LET task == Head(tlinks).task IN
         CountTasksKnownOnly(
            IF Truthy(task)
            THEN [tasks |-> acc.tasks \cup {task},
                  global_tasks |-> acc.global_tasks \cup {task},
                  task_counts |-> IF DictHas(acc.task_counts, task)
                                  THEN DictSet(acc.task_counts, task,
                                               DictGet(acc.task_counts, task, 0) + 1)
                                  ELSE acc.task_counts]
            ELSE acc,
            Tail(tlinks))

\* the loop "Count tasks" over parser.tlinks
RECURSIVE CountTasks(_, _)
CountTasks(acc, tlinks) ==
    IF tlinks = <<>> THEN acc
    ELSE LET task == Head(tlinks).task IN
         CountTasks(
            IF Truthy(task)
            THEN [tasks |-> acc.tasks \cup {task},
                  global_tasks |-> acc.global_tasks \cup {task},
                  task_counts |-> DictSet(acc.task_counts, task,
                                          DictGet(acc.task_counts, task, 0) + 1)]
            ELSE acc,
            Tail(tlinks))

InitialTaskCounts == << <<"A", 0>>, <<"B", 0>>, <<"C", 0>> >>

\* the entry appended to all_data
FileData(filepath, self, graph, counted, content) ==
    [filename |-> filepath.name,
     filepath |-> filepath,
     events |-> Len(self.events),
     timexes |-> Len(self.timexes),
     tlinks |-> Len(self.tlinks),
     sentences |-> self.sentences,
     nodes |-> graph.nodes,
     links |-> graph.links,
     tasks |-> Join(SortedTasks(counted.tasks), ","),
     task_counts |-> counted.task_counts,
     plain_text |-> GetPlainText(self, content),
     raw_xml |-> PyOr(self.raw_xml, "")]

(***************************************************************************)
(* generate_multi_file_html: the report.                                   *)
(***************************************************************************)
\* the tab buttons numbered from 1, as the loop over files counts
TabButtonFromOne(i, data) ==
    [index |-> i + 1,
     active |-> (i = 0),
     filename |-> data.filename,
     events |-> data.events,
     timexes |-> data.timexes,
     tlinks |-> data.tlinks,
     sentences |-> Len(data.sentences),
     tasks |-> IF data.tasks # "" THEN data.tasks ELSE "none"]

\* <button class="tab..." data-index=...>
TabButton(i, data) ==
    [index |-> i,
     active |-> (i = 0),
     filename |-> data.filename,
     events |-> data.events,
     timexes |-> data.timexes,
     tlinks |-> data.tlinks,
     sentences |-> Len(data.sentences),
     tasks |-> IF data.tasks # "" THEN data.tasks ELSE "none"]

\* the statistics "Task X: n" of a tab, one per task of global_tasks
TaskInfo(data, global_tasks) ==
    LET order == SortedTasks(global_tasks)
    IN [k \in DOMAIN order |-> <<order[k], DictGet(data.task_counts, order[k], 0)>>]

TextLimit == 30

TextKept == 27

\* source_text / target_text of a relation item
ShownText(text) ==
    IF Len(text) > TextLimit THEN Truncate(text, TextKept) \o <<".", ".", ".">> ELSE text

\* node_lookup = {node['id']: node for node in data['nodes']}
RECURSIVE NodeLookup(_, _)
NodeLookup(acc, nodes) ==
    IF nodes = <<>> THEN acc
    ELSE NodeLookup(DictSet(acc, Head(nodes).id, Head(nodes)), Tail(nodes))

\* the relation items of a tab
RelationItems(data) ==
    LET node_lookup == NodeLookup(<<>>, data.nodes)
    IN [k \in DOMAIN data.links |->
          [relation |-> data.links[k].relation,
           source_id |-> data.links[k].sourceId,
           source_text |->
               ShownText(DictGet(node_lookup, data.links[k].sourceId,
                                 [fullText |-> <<data.links[k].sourceId>>]).fullText),
           target_id |-> data.links[k].targetId,
           target_text |->
               ShownText(DictGet(node_lookup, data.links[k].targetId,
                                 [fullText |-> <<data.links[k].targetId>>]).fullText)]]

\* <div class="tab-content..." id="tab-i">
TabContent(i, data, global_tasks) ==
    [index |-> i,
     active |-> (i = 0),
     filename |-> data.filename,
     events |-> data.events,
     timexes |-> data.timexes,
     tlinks |-> data.tlinks,
     sentences |-> Len(data.sentences),
     task_info |-> TaskInfo(data, global_tasks),
     graph |-> (data.nodes # <<>>),
     text |-> data.sentences,
     nlinks |-> Len(data.links),
     relations |-> RelationItems(data)]

\* the totals with total_timexes summed over d['events']
TotalsWrongField(all_data) ==
    [events |-> SumSeq([k \in DOMAIN all_data |-> all_data[k].events]),
     timexes |-> SumSeq([k \in DOMAIN all_data |-> all_data[k].events]),
     tlinks |-> SumSeq([k \in DOMAIN all_data |-> all_data[k].tlinks])]

\* total_events, total_timexes, total_tlinks
Totals(all_data) ==
    [events |-> SumSeq([k \in DOMAIN all_data |-> all_data[k].events]),
     timexes |-> SumSeq([k \in DOMAIN all_data |-> all_data[k].timexes]),
     tlinks |-> SumSeq([k \in DOMAIN all_data |-> all_data[k].tlinks])]

\* d3_js after "Read D3.js library for embedding"
ReadD3(d3file) == IF d3file = "absent" THEN NoneVal ELSE d3file

\* the head with the CDN script element emitted unconditionally
HeadScriptsAlwaysCdn(d3_js) ==
    [inline |-> IF Truthy(d3_js) THEN d3_js ELSE "",
     external |-> <<"https://d3js.org/d3.v7.min.js">>]

\* the <script> elements of the head: the inline one, and the one loading
\* the library from the CDN
HeadScripts(d3_js) ==
    [inline |-> IF Truthy(d3_js) THEN d3_js ELSE "",
     external |-> IF Truthy(d3_js) THEN <<>> ELSE <<"https://d3js.org/d3.v7.min.js">>]

\* the header statistics
HeaderStats(files, totals) ==
    [files |-> Len(files),
     total_events |-> totals.events,
     total_timexes |-> totals.timexes,
     total_tlinks |-> totals.tlinks]

\* the document written to output_path; tabs are numbered from 0
BuildHtml(files, all_data, global_tasks, d3_js) ==
    [scripts |-> HeadScripts(d3_js),
     header |-> HeaderStats(files, Totals(all_data)),
     tabs |-> [k \in DOMAIN all_data |-> TabButton(k - 1, all_data[k])],
     contents |-> [k \in DOMAIN all_data |-> TabContent(k - 1, all_data[k], global_tasks)],
     allGraphData |-> [k \in DOMAIN all_data |->
                          [nodes |-> all_data[k].nodes, links |-> all_data[k].links]],
     allPlainTextData |-> [k \in DOMAIN all_data |-> all_data[k].plain_text],
     allRawXmlData |-> [k \in DOMAIN all_data |-> all_data[k].raw_xml],
     allFilenames |-> [k \in DOMAIN all_data |-> all_data[k].filename]]

NoHtml == BuildHtml(<<>>, <<>>, {}, NoneVal)

(***************************************************************************)
(* The program.                                                            *)
(***************************************************************************)
VARIABLES
    args,           \* the parsed command line: directories, limit
    disk,           \* what each .tml path holds
    pc,             \* "scan", "generate", "done" (returned), "exit1" (sys.exit(1)),
                    \* "crashed" (an exception left generate_multi_file_html)
    di,             \* main: the next directory of args.directories
    tml_files,      \* main: the list of files
    fi,             \* generate_multi_file_html: the next file
    parser,         \* generate_multi_file_html: the loop's parser
    all_data,       \* generate_multi_file_html: one entry per file
    global_tasks,   \* generate_multi_file_html: the tasks seen
    d3_js,          \* generate_multi_file_html: the library read
    html,           \* the content of the output file
    written,        \* the output file was written
    log             \* what was printed about errors and warnings

vars == <<args, disk, pc, di, tml_files, fi, parser, all_data, global_tasks,
          d3_js, html, written, log>>

\* one printed line about an error or a warning
LogEntry(msg, dir, path) == [msg |-> msg, dir |-> dir, path |-> path]

Init ==
    /\ args \in { [directories |-> d, limit |-> l] : d \in DirLists, l \in Limits }
    /\ disk \in [TmlPaths -> Contents]
    \* a file of a directory the command line does not name is never read
    /\ \A p \in TmlPaths :
          (\A i \in DOMAIN args.directories : args.directories[i] # p.dir)
              => disk[p] = FileContent(TRUE, TRUE, TRUE, "xml empty", EmptyDoc)
    /\ pc = "scan"
    /\ di = 1
    /\ tml_files = <<>>
    /\ fi = 1
    /\ parser = NoParser
    /\ all_data = <<>>
    /\ global_tasks = {}
    /\ d3_js = NoneVal
    /\ html = NoHtml
    /\ written = FALSE
    /\ log = <<>>

\* main, loop over args.directories: the directory does not exist
SkipMissingDirectory ==
    /\ pc = "scan"
    /\ di <= Len(args.directories)
    /\ ~Exists(args.directories[di])
    /\ log' = Append(log, LogEntry("Warning: Directory not found",
                                       args.directories[di], NoPath))
    /\ di' = di + 1
    /\ UNCHANGED <<args, disk, pc, tml_files, fi, parser, all_data, global_tasks,
                   d3_js, html, written>>

\* main, loop over args.directories: the directory's files are appended
CollectDirectory ==
    /\ pc = "scan"
    /\ di <= Len(args.directories)
    /\ Exists(args.directories[di])
    /\ \E globbed \in GlobOrders(args.directories[di]) :
          tml_files' = tml_files \o Sorted(globbed)
    /\ di' = di + 1
    /\ UNCHANGED <<args, disk, pc, fi, parser, all_data, global_tasks, d3_js, html,
                   written, log>>

\* main: no file was found
ExitNoFiles ==
    /\ pc = "scan"
    /\ di > Len(args.directories)
    /\ tml_files = <<>>
    /\ log' = Append(log, LogEntry("Error: No .tml files found in any directory",
                                       "", NoPath))
    /\ pc' = "exit1"
    /\ UNCHANGED <<args, disk, di, tml_files, fi, parser, all_data, global_tasks,
                   d3_js, html, written>>

\* main: the limit is applied and generate_multi_file_html is called
CallGenerate ==
    /\ pc = "scan"
    /\ di > Len(args.directories)
    /\ tml_files # <<>>
    /\ tml_files' = ApplyLimit(tml_files, args.limit)
    /\ pc' = "generate"
    /\ UNCHANGED <<args, disk, di, fi, parser, all_data, global_tasks, d3_js, html,
                   written, log>>

\* generate_multi_file_html: one iteration of the loop over files
ProcessFile ==
    /\ pc = "generate"
    /\ fi <= Len(tml_files)
    /\ LET filepath == tml_files[fi]
           content == disk[filepath]
           self == ParseFile(NewParser(parser, filepath), content)
           graph == GetGraphData(self)
           counted == CountTasks([tasks |-> {}, global_tasks |-> global_tasks,
                                  task_counts |-> InitialTaskCounts],
                                 self.tlinks)
       IN IF ParseFileEscapes(content) \/ GetPlainTextEscapes(content)
          THEN /\ pc' = "crashed"
               /\ UNCHANGED <<parser, global_tasks, all_data, log, fi>>
          ELSE /\ parser' = self
               /\ global_tasks' = counted.global_tasks
               /\ all_data' = Append(all_data,
                                     FileData(filepath, self, graph, counted, content))
               /\ log' = IF ParseFileRaises(content)
                         THEN Append(log, LogEntry("Error parsing", "", filepath))
                         ELSE log
               /\ fi' = fi + 1
               /\ pc' = pc
    /\ UNCHANGED <<args, disk, di, tml_files, d3_js, html, written>>

\* generate_multi_file_html after the loop: the totals, the library, the
\* document, and the write to output_path
WriteReport ==
    /\ pc = "generate"
    /\ fi > Len(tml_files)
    /\ \E d3file \in D3Files :
          /\ d3_js' = ReadD3(d3file)
          /\ html' = BuildHtml(tml_files, all_data, global_tasks, ReadD3(d3file))
          /\ log' = IF d3file = "absent"
                    THEN Append(log, LogEntry("Warning: d3.v7.min.js not found, using CDN",
                                             "", NoPath))
                    ELSE log
    /\ written' = TRUE
    /\ pc' = "done"
    /\ UNCHANGED <<args, disk, di, tml_files, fi, parser, all_data, global_tasks>>

Next ==
    \/ SkipMissingDirectory
    \/ CollectDirectory
    \/ ExitNoFiles
    \/ CallGenerate
    \/ ProcessFile
    \/ WriteReport

Spec == Init /\ [][Next]_vars

(***************************************************************************)
(* The same program run over one file, b/1.tml, that holds any document of *)
(* a generated family: a header with a TIMEX3 and a sentence without       *)
(* leading text, or no header and a sentence with leading text; up to      *)
(* MaxChildren children of the sentence, and up to MaxTlinks TLINKs.       *)
(***************************************************************************)
\* the children a sentence can have: id x is used by an EVENT and by a
\* TIMEX3, one EVENT has no eid, one element is no annotation
ElemPool ==
    { Elem("EVENT", "x", "OCCURRENCE", <<"r", "a", "n">>, <<" ">>),
      Elem("EVENT", NoneVal, NoneVal, <<>>, <<",", " ">>),
      Elem("TIMEX3", "x", "P1D", <<"d", "a", "y">>, <<".">>),
      Elem("TIMEX3", "y", NoneVal, <<>>, <<>>),
      Elem("NUMEX", NoneVal, NoneVal, <<"5">>, <<" ">>) }

\* the TLINKs a document can have: a source given by eventID, by timeID, by
\* an empty eventID and a timeID, by both; targets likewise, one of them an
\* id no element has; tasks A, D, none and empty
TLinkPool ==
    { TLink("l1", "BEFORE", "x", NoneVal, NoneVal, "y", "A"),
      TLink("l2", "AFTER", NoneVal, "y", "x", NoneVal, NoneVal),
      TLink("l3", "OVERLAP", "", "y", NoneVal, "z", "D"),
      TLink("l4", NoneVal, "x", "y", "y", "x", "") }

\* the sequences over a set of at most n elements
SeqsUpTo(S, n) == UNION { [1..k -> S] : k \in 0..n }

Documents ==
    { [outer |-> h.outer, sents |-> << Sent(h.text, ch) >>, tlinks |-> tl] :
        h \in { [outer |-> <<>>, text |-> <<"H", "e", " ">>],
                [outer |-> << Elem("TIMEX3", "y", "1998-01-08", <<>>, <<>>) >>,
                 text |-> <<>>] },
        ch \in SeqsUpTo(ElemPool, MaxChildren),
        tl \in SeqsUpTo(TLinkPool, MaxTlinks) }

DefaultContent == FileContent(TRUE, TRUE, TRUE, "xml empty", EmptyDoc)

InitDocuments ==
    /\ args \in { [directories |-> d, limit |-> [given |-> FALSE, n |-> 0]] :
                    d \in { <<"b">>, <<"nodir", "b">>, <<"nodir">> } }
    /\ disk \in { [p \in TmlPaths |->
                     IF p = Path("b", 1, "tml")
                     THEN FileContent(TRUE, TRUE, TRUE, "xml", doc)
                     ELSE DefaultContent] : doc \in Documents }
               \cup { [p \in TmlPaths |-> DefaultContent] }
    \* the documents vary in the runs over directory b alone
    /\ args.directories # <<"b">> => disk = [p \in TmlPaths |-> DefaultContent]
    /\ pc = "scan"
    /\ di = 1
    /\ tml_files = <<>>
    /\ fi = 1
    /\ parser = NoParser
    /\ all_data = <<>>
    /\ global_tasks = {}
    /\ d3_js = NoneVal
    /\ html = NoHtml
    /\ written = FALSE
    /\ log = <<>>

SpecDocuments == InitDocuments /\ [][Next]_vars


(***************************************************************************)
(* Properties.                                                             *)
(***************************************************************************)
Range(seq) == { seq[k] : k \in DOMAIN seq }

\* the file of position k (from 1) raised in parse_file
FailedAt(k) == ParseFileException(disk[tml_files[k]]) # NoneVal

\* C1: the report holds exactly one tab button and one tab-content block per
\* input file, in input order, numbered 0..n-1, tab i and tab-content i both
\* being those of files[i]; also for files that failed to parse and for
\* files of the same name.
C1_OneTabPerFile ==
    pc = "done" =>
        /\ Len(html.tabs) = Len(tml_files)
        /\ Len(html.contents) = Len(tml_files)
        /\ \A k \in DOMAIN tml_files :
              /\ html.tabs[k].index = k - 1
              /\ html.contents[k].index = k - 1
              /\ all_data[k].filepath = tml_files[k]
              /\ html.tabs[k].filename = tml_files[k].name
              /\ html.contents[k].filename = tml_files[k].name
              /\ html.tabs[k].events = all_data[k].events
              /\ html.contents[k].events = all_data[k].events
              /\ html.contents[k].text = all_data[k].sentences

\* a report over two files of the same name, one of which failed to parse
C1_Witness ==
    /\ pc = "done"
    /\ \E i, j \in DOMAIN tml_files :
          /\ i # j
          /\ tml_files[i].name = tml_files[j].name
          /\ tml_files[i] # tml_files[j]
          /\ FailedAt(i)
          /\ ~FailedAt(j)

\* C2: an exception of reading or parsing a file never leaves the parser: it
\* is logged, the file contributes an entry without annotations, every
\* other file of the list is processed, and the output is written.
C2_ParseErrorsAreSkipped ==
    /\ pc # "crashed"
    /\ pc = "generate" => Len(all_data) = fi - 1
    /\ \A k \in DOMAIN all_data :
          FailedAt(k) =>
              /\ LogEntry("Error parsing", "", tml_files[k]) \in Range(log)
              /\ all_data[k].events = 0
              /\ all_data[k].timexes = 0
              /\ all_data[k].tlinks = 0
              /\ all_data[k].sentences = <<>>
    /\ pc = "done" => written /\ Len(all_data) = Len(tml_files)

\* the report was written although a file before the last one could not be
\* opened and another could not be decoded
C2_Witness ==
    /\ pc = "done"
    /\ written
    /\ \E i, j \in DOMAIN tml_files :
          /\ i < j
          /\ OpenReadException(disk[tml_files[i]]) = "OSError"
          /\ ~FailedAt(j)
    /\ \E i \in DOMAIN tml_files :
          OpenReadException(disk[tml_files[i]]) = "UnicodeDecodeError"

C4_TotalsAreSums ==
    pc = "done" =>
        /\ html.header.total_events =
              SumSeq([k \in DOMAIN html.contents |-> html.contents[k].events])
        /\ html.header.total_timexes =
              SumSeq([k \in DOMAIN html.contents |-> html.contents[k].timexes])
        /\ html.header.total_tlinks =
              SumSeq([k \in DOMAIN html.contents |-> html.contents[k].tlinks])
        /\ html.header.files = Len(html.tabs)
        /\ html.header.files = Len(html.contents)

\* a report over several files with different counts of events and of time
\* expressions
C4_Witness ==
    /\ pc = "done"
    /\ Len(html.contents) >= 2
    /\ html.header.total_events # html.header.total_timexes
    /\ \E k \in DOMAIN html.contents :
          /\ html.contents[k].events > 0
          /\ html.contents[k].events < html.header.total_events


Min(a, b) == IF a < b THEN a ELSE b

\* C5 as claimed: with --limit N, for every integer N, the files processed
\* are the first N of the files collected: exactly min(N, number found).
C5_LimitKeepsFirstN ==
    [][(pc = "scan" /\ pc' = "generate" /\ args.limit.given) =>
          /\ Len(tml_files') = Min(args.limit.n, Len(tml_files))
          /\ tml_files' = SubSeq(tml_files, 1, Len(tml_files'))]_vars

\* C6 as claimed: when no .tml file is found main exits with status 1 and
\* writes nothing, and generate_multi_file_html is never called with an
\* empty list of files.
C6_NeverCalledWithNoFiles ==
    /\ pc = "exit1" => ~written /\ tml_files = <<>>
    /\ pc \in {"generate", "done"} => tml_files # <<>>

\* what generate_multi_file_html computes for a file processed alone
SoloData(filepath) ==
    LET content == disk[filepath]
        self == ParseFile(NewParser(NoParser, filepath), content)
        counted == CountTasks([tasks |-> {}, global_tasks |-> {},
                               task_counts |-> InitialTaskCounts],
                              self.tlinks)
    IN [data |-> FileData(filepath, self, GetGraphData(self), counted, content),
        global_tasks |-> counted.global_tasks]

\* a run over that file alone: its entry of all_data and its report
SoloRun(filepath) ==
    LET solo == SoloData(filepath)
    IN [data |-> solo.data,
        html |-> BuildHtml(<<filepath>>, <<solo.data>>, solo.global_tasks, NoneVal)]

\* a tab button or tab-content without its position in the report
AtFirst(tab) == [tab EXCEPT !.index = 0, !.active = TRUE]

WithoutTaskInfo(content) == [content EXCEPT !.task_info = <<>>]

\* C7 as claimed: the tab button and the tab-content of a file, statistics
\* included, are those of a run over that file alone, whatever other files
\* are processed in the same run.
C7_TabDependsOnFileAlone ==
    pc = "done" =>
        \A k \in DOMAIN tml_files :
            LET solo == SoloRun(tml_files[k])
            IN /\ AtFirst(html.tabs[k]) = solo.html.tabs[1]
               /\ AtFirst(html.contents[k]) = solo.html.contents[1]

\* the non-empty task attributes of the TLINKs of the files of the run that
\* were parsed
RunTasks ==
    UNION { { disk[tml_files[j]].doc.tlinks[n].task :
                n \in DOMAIN disk[tml_files[j]].doc.tlinks }
            : j \in { i \in DOMAIN tml_files : ~FailedAt(i) } }
        \ {NoneVal, ""}

\* C7, amended: apart from its position, the tab button and the tab-content
\* of a file are those of a run over that file alone, except the task
\* statistics of the tab-content: they list one count per task seen in any
\* file of the run, each count being the file's own.
C7_TabDependsOnFileAndRunTasks ==
    pc = "done" =>
        \A k \in DOMAIN tml_files :
            LET solo == SoloRun(tml_files[k])
                info == html.contents[k].task_info
            IN /\ AtFirst(html.tabs[k]) = solo.html.tabs[1]
               /\ WithoutTaskInfo(AtFirst(html.contents[k]))
                     = WithoutTaskInfo(solo.html.contents[1])
               /\ { info[j][1] : j \in DOMAIN info } = RunTasks
               /\ \A i, j \in DOMAIN info : i # j => info[i][1] # info[j][1]
               /\ \A j \in DOMAIN info :
                     info[j][2] = DictGet(solo.data.task_counts, info[j][1], 0)

\* a report where a tab shows the count of a task that only another file has,
\* after a file with annotations was processed before it
C7_Witness ==
    /\ pc = "done"
    /\ \E k \in DOMAIN tml_files :
          /\ k > 1
          /\ all_data[k - 1].events > 0
          /\ html.contents[k].task_info
                # SoloRun(tml_files[k]).html.contents[1].task_info

\* the .tml entries of a directory
TmlOf(dir) == { p \in Listing(dir) : p.ext = "tml" }

\* the .tml entries of a directory by increasing name
InNameOrder(dir) ==
    CHOOSE s \in [1..Cardinality(TmlOf(dir)) -> TmlOf(dir)] :
        \A i, j \in DOMAIN s : i < j => s[i].name < s[j].name

\* the files of the first n directories of the list, directory by directory
RECURSIVE FoundIn(_, _)
FoundIn(dirs, n) ==
    IF n = 0 THEN <<>>
    ELSE FoundIn(dirs, n - 1)
         \o (IF Exists(dirs[n]) THEN InNameOrder(dirs[n]) ELSE <<>>)

IsPrefix(s, t) == Len(s) <= Len(t) /\ s = SubSeq(t, 1, Len(s))

\* C8: a directory that does not exist gives a warning and is skipped, the
\* run going on; the files are those of the other directories, in the order
\* the directories were given and by sorted path within a directory, neither
\* re-sorted nor de-duplicated across directories.
C8_DirectoriesInOrder ==
    /\ pc = "scan" => tml_files = FoundIn(args.directories, di - 1)
    /\ pc # "scan" => di = Len(args.directories) + 1
    /\ pc = "exit1" => FoundIn(args.directories, Len(args.directories)) = <<>>
    /\ pc \in {"generate", "done"} =>
          /\ IsPrefix(tml_files, FoundIn(args.directories, Len(args.directories)))
          /\ ~args.limit.given =>
                tml_files = FoundIn(args.directories, Len(args.directories))
    /\ \A i \in 1..(di - 1) :
          ~Exists(args.directories[i]) =>
              LogEntry("Warning: Directory not found", args.directories[i], NoPath)
                  \in Range(log)

\* a report over the two files of a directory given after a missing one
C8_Witness ==
    /\ pc = "done"
    /\ ~args.limit.given
    /\ args.directories = <<"nodir", "a">>
    /\ Len(html.tabs) = 2
    /\ html.tabs[1].filename < html.tabs[2].filename

\* C9 as claimed: for a file parsed without error the counts of its tab are
\* the numbers of EVENT, TIMEX3 and TLINK elements of the document.
C9_CountsAreElementCounts ==
    pc = "done" =>
        \A k \in DOMAIN tml_files :
            ~FailedAt(k) =>
                /\ html.contents[k].events
                      = Len(FindAll(disk[tml_files[k]].doc, "EVENT"))
                /\ html.contents[k].timexes
                      = Len(FindAll(disk[tml_files[k]].doc, "TIMEX3"))
                /\ html.contents[k].tlinks = Len(disk[tml_files[k]].doc.tlinks)

\* C10 as claimed: the plain-text export of a file has one entry per
\* sentence of the document, as many as the sentences shown in its tab, and
\* both are empty when the file could not be processed.
C10_PlainTextMatchesSentences ==
    pc = "done" =>
        \A k \in DOMAIN tml_files :
            LET entries == PlainTextEntries(NoParser, disk[tml_files[k]])
            IN /\ all_data[k].plain_text = JoinLines(entries)
               /\ Len(entries) = html.contents[k].sentences
               /\ Len(entries) = Len(html.contents[k].text)
               /\ FailedAt(k) => entries = <<>> /\ html.contents[k].text = <<>>
               /\ ~FailedAt(k) => Len(entries) = Len(disk[tml_files[k]].doc.sents)


(***************************************************************************)
(* Properties of the graph data, the task counts and the rendered          *)
(* sentences, over the generated documents.                                *)
(***************************************************************************)
\* the loop of generate_multi_file_html has processed a file, whose parser
\* the variable parser still holds
Processed ==
    /\ pc \in {"generate", "done"}
    /\ all_data # <<>>
    /\ parser.filepath = all_data[Len(all_data)].filepath

\* the entry of all_data of the file processed last
LastData == all_data[Len(all_data)]

\* C11: each link's source and target are positions (from 0) of the nodes
\* list, and the node there has the link's sourceId, respectively targetId,
\* as its id.
C11_LinksPointAtTheirNodes ==
    \A k \in DOMAIN all_data :
        \A n \in DOMAIN all_data[k].links :
            LET link == all_data[k].links[n]
                nodes == all_data[k].nodes
            IN /\ link.source \in 0..(Len(nodes) - 1)
               /\ link.target \in 0..(Len(nodes) - 1)
               /\ nodes[link.source + 1].id = link.sourceId
               /\ nodes[link.target + 1].id = link.targetId

\* a file with a link between two different nodes, whose source id is the id
\* of two nodes
C11_Witness ==
    /\ Processed
    /\ \E n \in DOMAIN LastData.links :
          /\ LastData.links[n].source # LastData.links[n].target
          /\ \E i, j \in DOMAIN LastData.nodes :
                /\ i # j
                /\ LastData.nodes[i].id = LastData.links[n].sourceId
                /\ LastData.nodes[j].id = LastData.links[n].sourceId


\* C12 as claimed: no two nodes of a file's graph data carry the same id,
\* also when an eid and a tid coincide or an id attribute is missing.
C12_NodeIdsAreUnique ==
    \A k \in DOMAIN all_data :
        \A i, j \in DOMAIN all_data[k].nodes :
            i # j => all_data[k].nodes[i].id # all_data[k].nodes[j].id

\* the source of a TLINK: eventID when it is not empty, else timeID
SourceOf(tlink) ==
    IF tlink.eventID # NoneVal /\ tlink.eventID # "" THEN tlink.eventID
    ELSE tlink.timeID

\* the target of a TLINK: relatedToEvent when it is not empty, else
\* relatedToTime
TargetOf(tlink) ==
    IF tlink.relatedToEvent # NoneVal /\ tlink.relatedToEvent # ""
    THEN tlink.relatedToEvent
    ELSE tlink.relatedToTime

\* the ids of the nodes of the file processed last
KnownIds == { LastData.nodes[i].id : i \in DOMAIN LastData.nodes }

\* both ends of the TLINK are non-empty ids of nodes
Resolves(tlink) ==
    /\ SourceOf(tlink) \notin {NoneVal, ""}
    /\ TargetOf(tlink) \notin {NoneVal, ""}
    /\ SourceOf(tlink) \in KnownIds
    /\ TargetOf(tlink) \in KnownIds

\* C13: the links are those of the TLINKs whose two ends, resolved as eventID
\* else timeID and relatedToEvent else relatedToTime, are non-empty ids of
\* nodes, in the order of the TLINKs; every other TLINK is dropped, so the
\* links are no more than the file's Temporal Links count.
C13_LinksAreTheResolvedTlinks ==
    Processed =>
        LET kept == SelectSeq(parser.tlinks, Resolves)
        IN /\ Len(LastData.links) = Len(kept)
           /\ \A n \in DOMAIN kept :
                 /\ LastData.links[n].sourceId = SourceOf(kept[n])
                 /\ LastData.links[n].targetId = TargetOf(kept[n])
                 /\ LastData.links[n].relation = kept[n].relType
           /\ Len(LastData.links) <= LastData.tlinks
           /\ LastData.tlinks = Len(parser.tlinks)

\* a file with a TLINK dropped for a target no node has, its source being
\* the timeID after an empty eventID, followed by a TLINK that gives both an
\* eventID and a timeID and yields the only link
C13_Witness ==
    /\ Processed
    /\ LastData.tlinks = 2
    /\ Len(LastData.links) = 1
    /\ parser.tlinks[1].eventID = ""
    /\ SourceOf(parser.tlinks[1]) \in KnownIds
    /\ TargetOf(parser.tlinks[1]) \notin KnownIds
    /\ parser.tlinks[2].eventID = "x"
    /\ parser.tlinks[2].timeID = "y"
    /\ LastData.links[1].sourceId = "x"
    /\ LastData.links[1].targetId = "y"

\* C14: the nodes are as many as the recorded events and time expressions
\* together, the event nodes before the timex nodes, and node_ids maps every
\* recorded id to the position of a node of the list.
C14_NodesAreEventsThenTimexes ==
    Processed =>
        LET graph == GetGraphData(parser)
            ne == Len(parser.events)
        IN /\ graph.nodes = LastData.nodes
           /\ Len(graph.nodes) = ne + Len(parser.timexes)
           /\ \A i \in DOMAIN graph.nodes :
                 graph.nodes[i].type = IF i <= ne THEN "event" ELSE "timex"
           /\ \A i \in DOMAIN parser.events :
                 graph.nodes[i].id = parser.events[i][1]
           /\ \A i \in DOMAIN parser.timexes :
                 graph.nodes[ne + i].id = parser.timexes[i][1]
           /\ \A id \in DictKeys(parser.events) \cup DictKeys(parser.timexes) :
                 /\ DictHas(graph.node_ids, id)
                 /\ DictGet(graph.node_ids, id, -1) \in 0..(Len(graph.nodes) - 1)

\* a file with two events, one of them without id, and a time expression
C14_Witness ==
    /\ Processed
    /\ Len(parser.events) = 2
    /\ NoneVal \in DictKeys(parser.events)
    /\ Len(parser.timexes) = 1
    /\ Len(LastData.nodes) = 3

\* the TLINKs of the file processed last that carry a non-empty task
Tasked == SelectSeq(parser.tlinks, LAMBDA t : t.task \notin {NoneVal, ""})

\* the distinct tasks of those TLINKs
TasksSeen == { Tasked[n].task : n \in DOMAIN Tasked }

\* C15: task_counts holds, for every task, the number of the file's TLINKs
\* carrying it, resolved or not, so its sum is the number of TLINKs with a
\* non-empty task; it always has the keys A, B and C; the file's tasks string
\* is the distinct tasks sorted and joined by commas, and the tab button shows
\* "none" for it when there is none.
C15_TaskCountsCountTaskedTlinks ==
    Processed =>
        LET counts == LastData.task_counts IN
        /\ SumSeq([i \in DOMAIN counts |-> counts[i][2]]) = Len(Tasked)
        /\ Len(counts) = Cardinality(DictKeys(counts))
        /\ {"A", "B", "C"} \subseteq DictKeys(counts)
        /\ DictKeys(counts) = {"A", "B", "C"} \cup TasksSeen
        /\ \A t \in DictKeys(counts) :
              DictGet(counts, t, -1) =
                  Cardinality({ n \in DOMAIN Tasked : Tasked[n].task = t })
        /\ LastData.tasks = Join(SortedTasks(TasksSeen), ",")
        /\ pc = "done" =>
              html.tabs[Len(all_data)].tasks =
                  IF TasksSeen = {} THEN "none" ELSE LastData.tasks

\* a written report for a file whose TLINK of task D, which no link comes
\* from, precedes a TLINK of task A
C15_Witness ==
    /\ Processed
    /\ pc = "done"
    /\ Len(Tasked) = 2
    /\ Tasked[1].task = "D"
    /\ ~Resolves(Tasked[1])
    /\ Tasked[2].task = "A"
    /\ html.tabs[Len(all_data)].tasks = "A,D"

\* a written report for a file whose TLINKs carry no task
C15_WitnessNone ==
    /\ Processed
    /\ pc = "done"
    /\ parser.tlinks # <<>>
    /\ Tasked = <<>>
    /\ html.tabs[Len(all_data)].tasks = "none"

\* the child is a direct EVENT or TIMEX3 child
Annotation(child) == child.tag \in {"EVENT", "TIMEX3"}

\* the number of pieces a child contributes
Width(child) ==
    (IF Annotation(child) THEN 2 ELSE 0) + (IF child.tail # <<>> THEN 1 ELSE 0)

\* the number of pieces before those of child j of the sentence
Offset(elem, j) ==
    (IF elem.text # <<>> THEN 1 ELSE 0)
    + SumSeq([m \in 1..(j - 1) |-> Width(elem.children[m])])

\* the sentences of the document of the file processed last
LastSents == disk[parser.filepath].doc.sents

\* C16: a rendered sentence is the leading text, then for every direct child
\* in document order: for an EVENT or TIMEX3 one span of class event or timex
\* carrying its id and text, immediately followed by one marker of its id,
\* and then the child's tail text; a child of another tag gives its tail text
\* alone; so the spans are as many as the direct EVENT and TIMEX3 children.
C16_RenderedSentenceFollowsChildren ==
    (Processed /\ ParseFileException(disk[parser.filepath]) = NoneVal) =>
        /\ Len(parser.sentences) = Len(LastSents)
        /\ \A i \in DOMAIN LastSents :
              LET elem == LastSents[i]
                  out == parser.sentences[i]
              IN /\ Len(out) = Offset(elem, Len(elem.children) + 1)
                 /\ elem.text # <<>> =>
                        /\ out[1].kind = "text"
                        /\ out[1].text = elem.text
                 /\ \A j \in DOMAIN elem.children :
                        LET child == elem.children[j]
                            o == Offset(elem, j)
                        IN /\ Annotation(child) =>
                                 /\ out[o + 1].kind = "span"
                                 /\ out[o + 1].cls =
                                        (IF child.tag = "EVENT" THEN "event" ELSE "timex")
                                 /\ out[o + 1].id = child.id
                                 /\ out[o + 1].text = child.text
                                 /\ out[o + 2].kind = "marker"
                                 /\ out[o + 2].id = child.id
                           /\ child.tail # <<>> =>
                                 /\ out[o + Width(child)].kind = "text"
                                 /\ out[o + Width(child)].text = child.tail
                 /\ Cardinality({ n \in DOMAIN out : out[n].kind = "span" }) =
                        Cardinality({ j \in DOMAIN elem.children :
                                         Annotation(elem.children[j]) })

\* a sentence with a leading text, an EVENT child with a tail and a child of
\* another tag with a tail, rendered with one span
C16_Witness ==
    /\ Processed
    /\ ParseFileException(disk[parser.filepath]) = NoneVal
    /\ \E i \in DOMAIN LastSents :
          /\ LastSents[i].text # <<>>
          /\ Len(LastSents[i].children) = 2
          /\ LastSents[i].children[1].tag = "EVENT"
          /\ LastSents[i].children[1].tail # <<>>
          /\ ~Annotation(LastSents[i].children[2])
          /\ LastSents[i].children[2].tail # <<>>
          /\ Len(parser.sentences[i]) = 5
          /\ Cardinality({ n \in DOMAIN parser.sentences[i] :
                             parser.sentences[i][n].kind = "span" }) = 1

====
